---- MODULE Spec2Model ----
(***************************************************************************)
(* Fraud and progression validation of the construction-monitoring API    *)
(* gateway: the create_submission and compare_models handlers, the        *)
(* FraudDetector, the ConstructionStageClassifier and the                  *)
(* ProgressionValidator, over the submissions / ai_results / fraud_flags  *)
(* tables.                                                                 *)
(*                                                                         *)
(* Units.  Coordinates are (lat, lon) pairs on one meridian, the latitude *)
(* given as millimetres of arc, so that the haversine distance of two     *)
(* points is the absolute difference of their latitudes.  Distances are   *)
(* millimetres, created_at is hours, confidences are hundredths.          *)
(***************************************************************************)
EXTENDS Integers, Sequences, FiniteSets, TLC

VARIABLES
    submissions,   \* the submissions table, a sequence of rows in id order
    ai_results,    \* the ai_results table, a sequence of rows in insertion order
    fraud_flags,   \* the fraud_flags table, a sequence of rows in insertion order
    req            \* the request (or direct call) being served and its locals

vars == <<submissions, ai_results, fraud_flags, req>>

None == "None"
NoRow == [id |-> 0]             \* what .first() and db.get give when no row matches
NoMsg == [kind |-> None]        \* a None message

(***************************************************************************)
(* Bounds of the model.                                                    *)
(***************************************************************************)
MaxSubs == 2        \* rows of the submissions table at start (Spec, SpecProg)
MaxCompare == 2     \* comparison results compare_models may add
MaxGpsHist == 2     \* rows of the submissions table at start (SpecGps)
MaxHist == 11       \* rows of one site at start (SpecSpeed)
MaxBusy == 3        \* rows of one site, each with a stage on record (SpecBusy)
MaxDet == 2         \* detections of one detector output (SpecClassify)

Sites == {1, 2}                 \* ids of the rows of the sites table
SiteIds == Sites \cup {3}       \* site ids a request may carry
Surveyors == {1, 2}
StoredLats == {0, 1}            \* latitudes of the stored rows, mm
RequestLats == {0, 20000, 20001, 150000}   \* latitudes a request may carry, mm
Fingerprints == {{}, {0, 1, 2}} \* perceptual hashes, as the sets of their 1-bits
\* an upload: whether PIL can decode it, and the hash of its pixels if so
Photos == {[decodable |-> FALSE, bits |-> {}]}
          \cup {[decodable |-> TRUE, bits |-> f] : f \in Fingerprints}

(***************************************************************************)
(* The ORM classes: the attributes each declares.                          *)
(***************************************************************************)
SubmissionColumns ==
    {"id", "site_id", "photo_url", "gps_lat", "gps_lon", "timestamp",
     "status", "surveyor_id", "created_at"}

\* Class-level attribute access, Submission.<name>: AttributeError when the
\* class declares no such attribute.
HasAttr(columns, name) == name \in columns

(***************************************************************************)
(* ConstructionStage, by value, in declaration order.                      *)
(***************************************************************************)
ConstructionStage ==
    <<"planning", "site_preparation", "foundation", "walls", "roofing",
      "electrical", "plumbing", "finishing", "completed">>

StageValues == {ConstructionStage[i] : i \in 1..Len(ConstructionStage)}

\* list.index(x): the first position of x (0-based)
Index(list, x) == (CHOOSE i \in 1..Len(list) : list[i] = x /\ \A j \in 1..(i - 1) : list[j] # x) - 1

Abs(n) == IF n < 0 THEN -n ELSE n
Min(a, b) == IF a < b THEN a ELSE b

\* Results of the validator's checks: (ok, message)
Ok == [ok |-> TRUE, msg |-> NoMsg]
Reject(m) == [ok |-> FALSE, msg |-> m]

(***************************************************************************)
(* Query helpers: ORDER BY created_at DESC LIMIT n.  Rows with equal      *)
(* created_at come back in an order the database chooses, so a query has  *)
(* a set of possible results.                                              *)
(***************************************************************************)
Rows(table) == {table[i] : i \in 1..Len(table)}

\* the possible results of .order_by(created_at.desc()).limit(1) ... .first():
\* a row none is newer than; NoRow when no row matches
FirstDesc(rows) ==
    IF rows = {} THEN {NoRow}
    ELSE {r \in rows : \A o \in rows : o.created_at <= r.created_at}

\* the possible sets of rows .order_by(created_at.desc()).limit(n) returns
WindowsDesc(rows, n) ==
    {W \in SUBSET rows :
        /\ Cardinality(W) = Min(n, Cardinality(rows))
        /\ \A w \in W : \A o \in rows \ W : o.created_at <= w.created_at}

\* the created_at values of .order_by(created_at.desc()).limit(n), in the
\* order returned (the same whichever of several equal rows comes first)
RECURSIVE CreatedDesc(_, _)
CreatedDesc(rows, n) ==
    IF n = 0 \/ rows = {} THEN <<>>
    ELSE LET top == CHOOSE r \in rows : \A o \in rows : o.created_at <= r.created_at
         IN  <<top.created_at>> \o CreatedDesc(rows \ {top}, n - 1)

(***************************************************************************)
(* FraudDetector                                                           *)
(***************************************************************************)
\* Settings (core/config.py): the configured thresholds
GPS_TOLERANCE_METERS == 100
DUPLICATE_HASH_THRESHOLD == 5

\* FraudDetector(): the constructor defaults, which the endpoint module uses
gps_tolerance_meters == 20
duplicate_hamming_threshold == 5
MmPerMeter == 1000

\* haversine(coord1, coord2, unit=METERS), for two points of one meridian, mm
calculate_distance(coord1, coord2) == Abs(coord1[1] - coord2[1])

\* f"{dist:.2f}": the distance in hundredths of a metre, rounded half to even
Format2f(dist) ==
    LET q == dist \div 10
        r == dist % 10
    IN  IF r > 5 \/ (r = 5 /\ q % 2 = 1) THEN q + 1 ELSE q

GpsMessage(dist) == [kind |-> "GPS discrepancy too large", meters_2f |-> Format2f(dist),
                     maximum |-> gps_tolerance_meters]

\* Fault variant of LastSubmission: the query without its site filter
LastSubmissionAnySite(subs, site_id, surveyor_id) ==
    FirstDesc({s \in Rows(subs) : s.surveyor_id = surveyor_id})

\* the rows the query of check_distance_to_last_photo may return as last_submission
LastSubmission(subs, site_id, surveyor_id) ==
    FirstDesc({s \in Rows(subs) : s.site_id = site_id /\ s.surveyor_id = surveyor_id})

\* Fault variant of DistanceVerdict: dist >= tolerance instead of dist > tolerance
DistanceVerdictAtLeast(last_submission, current_coords) ==
    IF last_submission = NoRow THEN Ok
    ELSE LET dist == calculate_distance(current_coords,
                                        <<last_submission.gps_lat, last_submission.gps_lon>>)
         IN  IF dist >= gps_tolerance_meters * MmPerMeter
             THEN Reject(GpsMessage(dist))
             ELSE Ok

\* check_distance_to_last_photo, given the row its query returned
DistanceVerdict(last_submission, current_coords) ==
    IF last_submission = NoRow THEN Ok
    ELSE LET last_coords == <<last_submission.gps_lat, last_submission.gps_lon>>
             dist == calculate_distance(current_coords, last_coords)
         IN  IF dist > gps_tolerance_meters * MmPerMeter
             THEN Reject(GpsMessage(dist))
             ELSE Ok

NoHash == {64}   \* a NULL phash column (no hash has a bit 64)

\* imagehash: the Hamming distance of two hashes
Hamming(h1, h2) == Cardinality((h1 \ h2) \cup (h2 \ h1))

DupMessage(dist) == [kind |-> "Duplicate photo detected", hamming |-> dist,
                     threshold |-> duplicate_hamming_threshold]

Raised(exc) == [raised |-> TRUE, exc |-> exc]
Returned(v) == [raised |-> FALSE, value |-> v]

\* check_duplicate_photo: the outcomes it can have.  select(Submission.phash)
\* and Submission.is_approved are class attribute accesses.
check_duplicate_photo(subs, phash_new, site_id, surveyor_id) ==
    IF ~HasAttr(SubmissionColumns, "phash") \/ ~HasAttr(SubmissionColumns, "is_approved")
    THEN {Raised("AttributeError")}
    ELSE LET site_rows == {s \in Rows(subs) :
                             s.site_id = site_id /\ s.is_approved /\ s.phash # NoHash}
             surv_rows == {s \in Rows(subs) :
                             s.surveyor_id = surveyor_id /\ s.phash # NoHash}
         IN  UNION {
               LET all_hashes == {s.phash : s \in sw \cup vw}
                   hits == {h \in all_hashes :
                              Hamming(phash_new, h) <= duplicate_hamming_threshold}
               IN  IF hits = {}
                   THEN {Returned([is_duplicate |-> FALSE, msg |-> NoMsg])}
                   ELSE {Returned([is_duplicate |-> TRUE,
                                   msg |-> DupMessage(Hamming(phash_new, h))]) : h \in hits}
               : sw \in WindowsDesc(site_rows, 2), vw \in WindowsDesc(surv_rows, 3)}

(***************************************************************************)
(* ConstructionStageClassifier                                             *)
(***************************************************************************)
\* STAGE_INDICATORS, in dict order
STAGE_INDICATORS ==
    << [stage |-> "foundation",
        keywords |-> <<"foundation", "excavation", "concrete base", "concrete">>],
       [stage |-> "walls",
        keywords |-> <<"brick", "walls", "steel reinforcement", "concrete blocks", "masonry">>],
       [stage |-> "roofing",
        keywords |-> <<"roofing", "roof structure", "tiles", "metal sheets", "roof">>],
       [stage |-> "electrical",
        keywords |-> <<"wiring", "electrical", "conduits", "cables", "wires">>],
       [stage |-> "finishing",
        keywords |-> <<"paint", "finishing", "windows", "doors", "tiles", "flooring">>],
       [stage |-> "completed",
        keywords |-> <<"completed", "final", "handover">>] >>

\* str.lower(), on the letters the labels of the model use
LowerChar(c) ==
    CASE c = "B" -> "b" [] c = "C" -> "c" [] c = "F" -> "f" [] c = "R" -> "r"
      [] c = "S" -> "s" [] c = "T" -> "t" [] c = "W" -> "w" [] OTHER -> c

RECURSIVE Lower(_)
Lower(s) ==
    IF Len(s) = 0 THEN ""
    ELSE LowerChar(SubSeq(s, 1, 1)) \o Lower(SubSeq(s, 2, Len(s)))

\* keyword in label
Contains(keyword, label) ==
    \E i \in 1..(Len(label) - Len(keyword) + 1) :
        SubSeq(label, i, i + Len(keyword) - 1) = keyword

\* the keywords of one stage that occur in some label, in keyword order
MatchedKeywords(keywords, detected_labels) ==
    SelectSeq(keywords,
              LAMBDA k : \E j \in 1..Len(detected_labels) :
                            Contains(Lower(k), detected_labels[j]))

\* Fault variant of BestStage: the last entry of the highest score
BestStageLast(stage_scores) ==
    LET i == CHOOSE k \in 1..Len(stage_scores) :
                /\ \A j \in 1..Len(stage_scores) : stage_scores[j].score <= stage_scores[k].score
                /\ \A j \in (k + 1)..Len(stage_scores) :
                      stage_scores[j].score < stage_scores[k].score
    IN  stage_scores[i]

\* max(stage_scores.items(), key=score): the first entry of the highest score
BestStage(stage_scores) ==
    LET i == CHOOSE k \in 1..Len(stage_scores) :
                /\ \A j \in 1..Len(stage_scores) : stage_scores[j].score <= stage_scores[k].score
                /\ \A j \in 1..(k - 1) : stage_scores[j].score < stage_scores[k].score
    IN  stage_scores[i]

Classified(stage, confidence, matched) ==
    [stage |-> stage, confidence |-> confidence, matched_elements |-> matched]

\* Fault variant of Confidence: score * 0.25 without the cap
ConfidenceUncapped(score) == score * 25

\* min(score * 0.25, 1.0), in hundredths
Confidence(score) == Min(score * 25, 100)

\* Fault variant of NoMatchDefault: the first stage of the enum as the default
NoMatchDefaultPlanning == Classified("planning", 50, <<>>)

\* lines 77 and 104: no detections, or no stage with a match
NoMatchDefault == Classified("site_preparation", 50, <<>>)

\* Fault variant of ErrorDefault: the no-match default on an error
ErrorDefaultHalf == Classified("site_preparation", 50, <<>>)

\* lines 121-123: except Exception
ErrorDefault == Classified("site_preparation", 0, <<>>)

\* classify_stage(detections): (stage, confidence in hundredths, matched_elements)
classify_stage(detections) ==
    IF "detections" \notin DOMAIN detections THEN NoMatchDefault
    ELSE IF Len(detections.detections) = 0 THEN NoMatchDefault
    ELSE IF \E j \in 1..Len(detections.detections) :
               "label" \notin DOMAIN detections.detections[j]
    THEN ErrorDefault                                     \* KeyError, caught
    ELSE LET detected_labels ==
                 [j \in 1..Len(detections.detections) |->
                     Lower(detections.detections[j].label)]
             scored ==
                 [k \in 1..Len(STAGE_INDICATORS) |->
                     LET m == MatchedKeywords(STAGE_INDICATORS[k].keywords, detected_labels)
                     IN  [stage |-> STAGE_INDICATORS[k].stage,
                          score |-> Len(m),
                          matched |-> m,
                          confidence |-> Confidence(Len(m))]]
             stage_scores == SelectSeq(scored, LAMBDA e : e.score > 0)
         IN  IF Len(stage_scores) = 0
             THEN NoMatchDefault
             ELSE LET best_stage == BestStage(stage_scores)
                  IN  Classified(best_stage.stage, best_stage.confidence, best_stage.matched)

(***************************************************************************)
(* GroundingDINOService.detect: every path returns the placeholder output *)
(***************************************************************************)
placeholder_detections ==
    [detections |-> << [label |-> "foundation concrete"],
                       [label |-> "brick walls"],
                       [label |-> "steel reinforcement"],
                       [label |-> "construction workers"] >>]

(***************************************************************************)
(* ProgressionValidator                                                    *)
(***************************************************************************)
days_per_stage == 7
max_stage_jumps == 2
HoursPerDay == 24

\* stage_order of _check_regression
stage_order_regression ==
    <<"planning", "site_preparation", "foundation", "walls", "roofing",
      "electrical", "plumbing", "finishing", "completed">>

\* Fault variant of stage_order_jump: electrical and plumbing change places
stage_order_jump_swapped ==
    <<"planning", "site_preparation", "foundation", "walls", "roofing",
      "plumbing", "electrical", "finishing", "completed">>

\* stage_order of _check_stage_jump
stage_order_jump ==
    <<"planning", "site_preparation", "foundation", "walls", "roofing",
      "electrical", "plumbing", "finishing", "completed">>

RegressionMessage(previous_stage, current_stage) ==
    [kind |-> "Stage regression detected", previous |-> previous_stage,
     current |-> current_stage]

_check_regression(previous_stage, current_stage) ==
    LET prev_idx == Index(stage_order_regression, previous_stage)
        curr_idx == Index(stage_order_regression, current_stage)
    IN  IF curr_idx < prev_idx
        THEN Reject(RegressionMessage(previous_stage, current_stage))
        ELSE Ok

\* timedelta.days of (newer - older)
Days(newer, older) == (newer - older) \div HoursPerDay

SpeedMessage(n, time_diff) ==
    [kind |-> "Unrealistic progress speed", submissions |-> n, days |-> time_diff]

\* Fault variant of _check_realistic_speed: the query without .limit(10)
SpeedOverWholeHistory(subs, site_id) ==
    LET rows == {s \in Rows(subs) : s.site_id = site_id}
        recent == CreatedDesc(rows, Cardinality(rows))
    IN  IF Len(recent) < 2 THEN Ok
        ELSE LET time_diff == Days(recent[1], recent[Len(recent)])
             IN  IF time_diff < days_per_stage /\ Len(recent) > 2
                 THEN Reject(SpeedMessage(Len(recent), time_diff))
                 ELSE Ok

_check_realistic_speed(subs, site_id) ==
    LET recent == CreatedDesc({s \in Rows(subs) : s.site_id = site_id}, 10)
    IN  IF Len(recent) < 2 THEN Ok
        ELSE LET time_diff == Days(recent[1], recent[Len(recent)])
             IN  IF time_diff < days_per_stage /\ Len(recent) > 2
                 THEN Reject(SpeedMessage(Len(recent), time_diff))
                 ELSE Ok

JumpMessage(jump_size, previous_stage, current_stage) ==
    [kind |-> "Impossible stage jump", skipped |-> jump_size,
     previous |-> previous_stage, current |-> current_stage]

_check_stage_jump(previous_stage, current_stage) ==
    LET jump_size == Abs(Index(stage_order_jump, current_stage)
                         - Index(stage_order_jump, previous_stage))
    IN  IF jump_size > max_stage_jumps
        THEN Reject(JumpMessage(jump_size, previous_stage, current_stage))
        ELSE Ok

\* the three rules, in the order validate_progression applies them
ProgressionRules(subs, site_id, previous_stage, current_stage) ==
    LET regression == _check_regression(previous_stage, current_stage)
        speed == _check_realistic_speed(subs, site_id)
        jump == _check_stage_jump(previous_stage, current_stage)
    IN  IF ~regression.ok THEN regression
        ELSE IF ~speed.ok THEN speed
        ELSE IF ~jump.ok THEN jump
        ELSE Ok

\* the body of the try block of validate_progression: its possible outcomes.
\* Submission.is_approved, in the first query, is a class attribute access.
ProgressionTry(subs, ais, site_id, current_stage) ==
    IF ~HasAttr(SubmissionColumns, "is_approved")
    THEN {Raised("AttributeError")}
    ELSE UNION {
           IF previous_submission = NoRow THEN {Returned(Ok)}
           ELSE UNION {
                  IF previous_ai = NoRow \/ previous_ai.stage = None
                  THEN {Returned(Ok)}
                  ELSE IF previous_ai.stage \notin StageValues
                  THEN {Raised("ValueError")}
                  ELSE {Returned(ProgressionRules(subs, site_id, previous_ai.stage,
                                                  current_stage))}
                  : previous_ai \in
                      FirstDesc({a \in Rows(ais) : a.submission_id = previous_submission.id})}
           : previous_submission \in
               FirstDesc({s \in Rows(subs) : s.site_id = site_id /\ s.is_approved})}

\* Fault variant of validate_progression: no except clause, errors propagate
ProgressionUnguarded(subs, ais, site_id, current_stage) ==
    ProgressionTry(subs, ais, site_id, current_stage)

\* Fault variant of validate_progression: the previous stage is the newest
\* stage on record for the site, whichever submission it belongs to
ProgressionOnAnyStaged(subs, ais, site_id, current_stage) ==
    LET staged == {a \in Rows(ais) :
                      /\ a.stage \in StageValues
                      /\ \E s \in Rows(subs) : s.id = a.submission_id /\ s.site_id = site_id}
    IN  {IF previous_ai = NoRow THEN Returned(Ok)
         ELSE Returned(ProgressionRules(subs, site_id, previous_ai.stage, current_stage))
         : previous_ai \in FirstDesc(staged)}

\* Fault variant of validate_progression: the lookup without the is_approved
\* filter, the rules applied to the stage it finds
ProgressionOnLatest(subs, ais, site_id, current_stage) ==
    UNION {
      IF previous_submission = NoRow THEN {Returned(Ok)}
      ELSE UNION {
             IF previous_ai = NoRow \/ previous_ai.stage = None
             THEN {Returned(Ok)}
             ELSE IF previous_ai.stage \notin StageValues
             THEN {Raised("ValueError")}
             ELSE {Returned(ProgressionRules(subs, site_id, previous_ai.stage,
                                             current_stage))}
             : previous_ai \in
                 FirstDesc({a \in Rows(ais) : a.submission_id = previous_submission.id})}
      : previous_submission \in FirstDesc({s \in Rows(subs) : s.site_id = site_id})}

\* validate_progression: what reaches the caller.  except Exception: the error
\* is logged and (True, None) returned.
validate_progression(subs, ais, site_id, current_stage) ==
    {IF o.raised THEN Returned(Ok) ELSE o :
        o \in ProgressionTry(subs, ais, site_id, current_stage)}

(***************************************************************************)
(* Rows                                                                    *)
(***************************************************************************)
\* a row of submissions, with the columns the Submission class declares and
\* the checks read (status is the column default for rows stored elsewhere)
SubmissionRow(id, site_id, surveyor_id, gps_lat, created_at) ==
    [id |-> id, site_id |-> site_id, surveyor_id |-> surveyor_id,
     gps_lat |-> gps_lat, gps_lon |-> 0, created_at |-> created_at,
     status |-> "PENDING"]

AIResultRow(id, submission_id, model_type, stage) ==
    [id |-> id, submission_id |-> submission_id, model_type |-> model_type,
     stage |-> stage, created_at |-> id]

\* db.get(Submission, id)
GetSubmission(subs, id) == IF id \in 1..Len(subs) THEN subs[id] ELSE NoRow

Latest(subs) == IF Len(subs) = 0 THEN 0 ELSE subs[Len(subs)].created_at

\* comparison.py lines 99-103: the ProgressionAlert built from the result of
\* validate_progression
ProgressionAlert(verdict) ==
    [is_valid |-> verdict.ok,
     alert_type |-> IF verdict.ok THEN None ELSE "progression_violation",
     message |-> verdict.msg]

(***************************************************************************)
(* The request being served                                                *)
(***************************************************************************)
NoVerdict == [ok |-> TRUE, msg |-> [kind |-> "not run"]]
NoDup == [is_duplicate |-> FALSE, msg |-> [kind |-> "not run"]]
NoStage == Classified(None, 0, <<>>)

Idle ==
    [op |-> "idle", pc |-> "idle", exc |-> None,
     site_id |-> 0, surveyor_id |-> 0, coords |-> <<0, 0>>,
     photo |-> [decodable |-> FALSE, bits |-> {}], photo_saved |-> FALSE,
     detections |-> [detections |-> <<>>],
     submission_id |-> 0, current_stage |-> None, previous_stage |-> None,
     last_submission |-> NoRow, gps |-> NoVerdict, dup |-> NoDup,
     previous_gps |-> NoVerdict,
     stage |-> NoStage, progression |-> NoVerdict,
     progression_check |-> ProgressionAlert(NoVerdict)]

\* the handler has returned or raised: the worker takes the next request
Terminal == {"idle", "done", "raised"}

Raise(r, exc) == [r EXCEPT !.pc = "raised", !.exc = exc]

(***************************************************************************)
(* POST /submissions: create_submission                                    *)
(***************************************************************************)
\* lines 27-29: the site lookup
create_submission_site(site_id, gps_lat, surveyor_id, photo) ==
    /\ req.pc \in Terminal
    /\ LET r == [Idle EXCEPT !.op = "create_submission", !.site_id = site_id,
                             !.surveyor_id = surveyor_id, !.coords = <<gps_lat, 0>>,
                             !.photo = photo]
       IN  req' = IF site_id \in Sites THEN [r EXCEPT !.pc = "hash"]
                  ELSE Raise(r, "HTTP 404 Site not found")
    /\ UNCHANGED <<submissions, ai_results, fraud_flags>>

\* Fault variant of create_submission_hash: an undecodable photo gets the
\* all-zero hash and the pass goes on
create_submission_hash_zero ==
    /\ req.op = "create_submission" /\ req.pc = "hash"
    /\ req' = [req EXCEPT !.pc = "gps"]
    /\ UNCHANGED <<submissions, ai_results, fraud_flags>>

\* lines 32-35: generate_phash on the temporary copy of the upload
create_submission_hash ==
    /\ req.op = "create_submission" /\ req.pc = "hash"
    /\ req' = IF req.photo.decodable THEN [req EXCEPT !.pc = "gps"]
              ELSE Raise(req, "UnidentifiedImageError")
    /\ UNCHANGED <<submissions, ai_results, fraud_flags>>

\* Fault variant of create_submission_gps: the GPS_MISMATCH flag is committed
\* as soon as the check rejects
create_submission_gps_eager ==
    /\ req.op = "create_submission" /\ req.pc = "gps"
    /\ \E last_submission \in LastSubmission(submissions, req.site_id, req.surveyor_id) :
          LET gps == DistanceVerdict(last_submission, req.coords)
          IN  /\ req' = [req EXCEPT !.pc = "duplicate",
                                    !.last_submission = last_submission, !.gps = gps]
              /\ fraud_flags' =
                    IF gps.ok THEN fraud_flags
                    ELSE Append(fraud_flags,
                                [submission_id |-> Len(submissions) + 1,
                                 flag_type |-> "GPS_MISMATCH",
                                 details |-> gps.msg, resolved |-> FALSE])
    /\ UNCHANGED <<submissions, ai_results>>

\* lines 37-40: check_distance_to_last_photo
create_submission_gps ==
    /\ req.op = "create_submission" /\ req.pc = "gps"
    /\ \E last_submission \in LastSubmission(submissions, req.site_id, req.surveyor_id) :
          req' = [req EXCEPT !.pc = "duplicate",
                             !.last_submission = last_submission,
                             !.gps = DistanceVerdict(last_submission, req.coords)]
    /\ UNCHANGED <<submissions, ai_results, fraud_flags>>

\* lines 55-61: the flags of the two verdicts
FraudFlagsOf(gps, dup) ==
    (IF ~gps.ok THEN <<[flag_type |-> "GPS_MISMATCH", description |-> gps.msg]>> ELSE <<>>)
    \o (IF dup.is_duplicate
        THEN <<[flag_type |-> "DUPLICATE_PHOTO", description |-> dup.msg]>> ELSE <<>>)

\* lines 42-102: check_duplicate_photo and, when it returns, the rest of the
\* handler up to the commit.  Submission(...) takes phash= and is_approved=,
\* which the declarative constructor accepts only for declared attributes.
create_submission_duplicate ==
    /\ req.op = "create_submission" /\ req.pc = "duplicate"
    /\ \E o \in check_duplicate_photo(submissions, req.photo.bits, req.site_id,
                                      req.surveyor_id) :
          IF o.raised
          THEN /\ req' = Raise(req, o.exc)
               /\ UNCHANGED <<submissions, ai_results, fraud_flags>>
          ELSE IF ~({"phash", "is_approved"} \subseteq SubmissionColumns)
          THEN /\ req' = Raise([req EXCEPT !.dup = o.value, !.photo_saved = TRUE],
                             "TypeError")
               /\ UNCHANGED <<submissions, ai_results, fraud_flags>>
          ELSE LET flags == FraudFlagsOf(req.gps, o.value)
                   id == Len(submissions) + 1
               IN  \E created_at \in {Latest(submissions), Latest(submissions) + 1} :
                     /\ submissions' =
                          Append(submissions,
                                 [id |-> id, site_id |-> req.site_id,
                                  surveyor_id |-> req.surveyor_id,
                                  gps_lat |-> req.coords[1], gps_lon |-> req.coords[2],
                                  created_at |-> created_at,
                                  phash |-> req.photo.bits,
                                  status |-> IF Len(flags) > 0 THEN "FLAGGED" ELSE "COMPLETED",
                                  is_approved |-> (Len(flags) = 0)])
                     /\ ai_results' =
                          Append(ai_results,
                                 AIResultRow(Len(ai_results) + 1, id, "rtdetr", None))
                     /\ fraud_flags' =
                          fraud_flags \o
                          [k \in 1..Len(flags) |->
                              [submission_id |-> id, flag_type |-> flags[k].flag_type,
                               details |-> flags[k].description, resolved |-> FALSE]]
                     /\ req' = [req EXCEPT !.pc = "done", !.submission_id = id,
                                            !.dup = o.value, !.photo_saved = TRUE]

\* the client sends the request it sent last once more; previous_gps keeps the
\* GPS verdict of the pass before
create_submission_again ==
    /\ req.op = "create_submission" /\ req.pc \in Terminal
    /\ req.gps # NoVerdict
    /\ req' = [Idle EXCEPT !.op = "create_submission", !.pc = "hash",
                           !.site_id = req.site_id, !.surveyor_id = req.surveyor_id,
                           !.coords = req.coords, !.photo = req.photo,
                           !.previous_gps = req.gps]
    /\ UNCHANGED <<submissions, ai_results, fraud_flags>>

(***************************************************************************)
(* POST /comparison: compare_models                                        *)
(***************************************************************************)
ComparisonResults(ais) == {a \in Rows(ais) : a.model_type = "comparison_dino_sam3"}

\* lines 55-73: the submission and its latest RT-DETR result
compare_models_load(submission_id) ==
    /\ req.pc \in Terminal
    /\ Cardinality(ComparisonResults(ai_results)) < MaxCompare
    /\ LET r == [Idle EXCEPT !.op = "compare_models", !.submission_id = submission_id]
           submission == GetSubmission(submissions, submission_id)
           rtdetr == FirstDesc({a \in Rows(ai_results) :
                                   a.submission_id = submission_id /\ a.model_type = "rtdetr"})
       IN  req' = IF submission = NoRow THEN Raise(r, "HTTP 404 Submission not found")
                  ELSE IF rtdetr = {NoRow} THEN Raise(r, "HTTP 404 RT-DETR results not found")
                  ELSE [r EXCEPT !.pc = "classify", !.site_id = submission.site_id]
    /\ UNCHANGED <<submissions, ai_results, fraud_flags>>

\* lines 77-91: detection, segmentation and classify_stage
compare_models_classify ==
    /\ req.op = "compare_models" /\ req.pc = "classify"
    /\ LET dino_results == placeholder_detections
       IN  req' = [req EXCEPT !.pc = "validate", !.stage = classify_stage(dino_results),
                              !.current_stage = classify_stage(dino_results).stage]
    /\ UNCHANGED <<submissions, ai_results, fraud_flags>>

\* lines 93-103: validate_progression and the ProgressionAlert
compare_models_validate ==
    /\ req.op = "compare_models" /\ req.pc = "validate"
    /\ \E o \in validate_progression(submissions, ai_results, req.site_id, req.current_stage) :
          req' = IF o.raised THEN Raise(req, o.exc)
                 ELSE [req EXCEPT !.pc = "store", !.progression = o.value,
                                   !.progression_check = ProgressionAlert(o.value)]
    /\ UNCHANGED <<submissions, ai_results, fraud_flags>>

\* Fault variant of compare_models_store: the comparison result replaces the
\* latest AI result instead of being added
compare_models_store_replace ==
    /\ req.op = "compare_models" /\ req.pc = "store"
    /\ ai_results' = [ai_results EXCEPT ![Len(ai_results)] =
                         AIResultRow(Len(ai_results), req.submission_id,
                                     "comparison_dino_sam3", req.current_stage)]
    /\ req' = [req EXCEPT !.pc = "done"]
    /\ UNCHANGED <<submissions, fraud_flags>>

\* lines 105-171: the response, the comparison AIResult and the commit
compare_models_store ==
    /\ req.op = "compare_models" /\ req.pc = "store"
    /\ ai_results' = Append(ai_results,
                            AIResultRow(Len(ai_results) + 1, req.submission_id,
                                        "comparison_dino_sam3", req.current_stage))
    /\ req' = [req EXCEPT !.pc = "done"]
    /\ UNCHANGED <<submissions, fraud_flags>>

(***************************************************************************)
(* Direct calls of the validator's methods                                 *)
(***************************************************************************)
call_validate_progression(site_id, current_stage) ==
    /\ \E o \in validate_progression(submissions, ai_results, site_id, current_stage) :
          LET r == [Idle EXCEPT !.op = "validate_progression", !.site_id = site_id,
                                !.current_stage = current_stage]
          IN  req' = IF o.raised THEN Raise(r, o.exc)
                     ELSE [r EXCEPT !.pc = "done", !.progression = o.value]
    /\ UNCHANGED <<submissions, ai_results, fraud_flags>>

call_check_realistic_speed(site_id) ==
    /\ req' = [Idle EXCEPT !.op = "_check_realistic_speed", !.pc = "done",
                           !.site_id = site_id,
                           !.progression = _check_realistic_speed(submissions, site_id)]
    /\ UNCHANGED <<submissions, ai_results, fraud_flags>>

call_check_regression(previous_stage, current_stage) ==
    /\ req' = [Idle EXCEPT !.op = "_check_regression", !.pc = "done",
                           !.previous_stage = previous_stage,
                           !.current_stage = current_stage,
                           !.progression = _check_regression(previous_stage, current_stage)]
    /\ UNCHANGED <<submissions, ai_results, fraud_flags>>

call_check_stage_jump(previous_stage, current_stage) ==
    /\ req' = [Idle EXCEPT !.op = "_check_stage_jump", !.pc = "done",
                           !.previous_stage = previous_stage,
                           !.current_stage = current_stage,
                           !.progression = _check_stage_jump(previous_stage, current_stage)]
    /\ UNCHANGED <<submissions, ai_results, fraud_flags>>

\* classify_stage called on the detector output at hand
call_classify_stage ==
    /\ req' = [req EXCEPT !.op = "classify_stage", !.pc = "done",
                          !.stage = classify_stage(req.detections),
                          !.current_stage = classify_stage(req.detections).stage]
    /\ UNCHANGED <<submissions, ai_results, fraud_flags>>

(***************************************************************************)
(* Initial tables.  create_submission is the only writer of submissions   *)
(* in this code; the tables start with rows stored before.                 *)
(***************************************************************************)
\* created_at of k rows in id order: PlainTimes one row an hour, TiedTimes
\* also rows stored within the same hour
PlainTimes(k) == {[i \in 1..k |-> i]}
TiedTimes(k) ==
    {t \in [1..k -> 1..k] :
        /\ k > 0 => t[1] = 1
        /\ \A i \in 2..k : t[i] - t[i - 1] \in {0, 1}}

\* the tables of up to n rows, the sites, surveyors and latitudes drawn from
\* the given sets
Histories(n, sites, surveyors, lats, tied) ==
    UNION {
      {[i \in 1..k |-> SubmissionRow(i, c[i][1], c[i][2], c[i][3], t[i])] :
          c \in [1..k -> sites \X surveyors \X lats],
          t \in IF tied THEN TiedTimes(k) ELSE PlainTimes(k)}
      : k \in 0..n}

\* the elements of a set of numbers, ascending
RECURSIVE Ascending(_)
Ascending(S) ==
    IF S = {} THEN <<>>
    ELSE LET m == CHOOSE x \in S : \A y \in S : x <= y
         IN  <<m>> \o Ascending(S \ {m})

\* one AI result for each submission of ids, of the type and stage given
ResultsFor(ids, model_type, stage_of) ==
    LET order == Ascending(ids)
    IN  [j \in 1..Len(order) |-> AIResultRow(j, order[j], model_type, stage_of[order[j]])]

\* Spec: each submission with or without an RT-DETR result
Init ==
    /\ submissions \in Histories(MaxSubs, Sites, {1}, {0}, FALSE)
    /\ \E ids \in SUBSET (1..Len(submissions)) :
          ai_results = ResultsFor(ids, "rtdetr", [i \in ids |-> None])
    /\ fraud_flags = <<>>
    /\ req = Idle

\* SpecGps: rows of both surveyors at both sites, some within the same hour
InitGps ==
    /\ submissions \in Histories(MaxGpsHist, Sites, Surveyors, StoredLats, TRUE)
    /\ ai_results = <<>>
    /\ fraud_flags = <<>>
    /\ req = Idle

\* SpecProg: each submission with or without a comparison result, whose stage
\* column holds a stage, NULL or a string that is no stage
StoredStages == StageValues \cup {None, "bogus"}

InitProg ==
    /\ submissions \in Histories(MaxSubs, Sites, {1}, {0}, FALSE)
    /\ \E ids \in SUBSET (1..Len(submissions)) :
          \E stage_of \in [ids -> StoredStages] :
             ai_results = ResultsFor(ids, "comparison_dino_sam3", stage_of)
    /\ fraud_flags = <<>>
    /\ req = Idle

\* SpecBaseline: every submission with its RT-DETR result, and at most one of
\* them with a comparison result recorded after it
BaselineStages == {"foundation", "roofing"}

InitBaseline ==
    /\ submissions \in Histories(MaxSubs, Sites, {1}, {0}, FALSE)
    /\ LET ids == 1..Len(submissions)
           rtdetr == ResultsFor(ids, "rtdetr", [i \in ids |-> None])
       IN  \/ ai_results = rtdetr
           \/ \E i \in ids, stage \in BaselineStages :
                 ai_results = Append(rtdetr, AIResultRow(Len(rtdetr) + 1, i,
                                                         "comparison_dino_sam3", stage))
    /\ fraud_flags = <<>>
    /\ req = Idle

\* SpecBusy: up to MaxBusy submissions of site 1 in consecutive hours, each
\* with a comparison result that has a stage
BusyStages == {"walls", "roofing"}

InitBusy ==
    /\ submissions \in Histories(MaxBusy, {1}, {1}, {0}, FALSE)
    /\ \E stage_of \in [1..Len(submissions) -> BusyStages] :
          ai_results = ResultsFor(1..Len(submissions), "comparison_dino_sam3", stage_of)
    /\ fraud_flags = <<>>
    /\ req = Idle

\* SpecSpeed: the rows of site 1 at hours 0, 167 and 168 (6 days 23 hours and
\* 7 days later), and at most one row of site 2
Repeat(x, n) == [i \in 1..n |-> x]
SpeedTimes == <<0, 167, 168>>
OtherSiteTimes == {0, 168, 336}

InitSpeed ==
    /\ \E a, b, c \in 0..MaxHist :
          /\ a + b + c <= MaxHist
          /\ \E other \in SUBSET OtherSiteTimes :
                /\ Cardinality(other) <= 1
                /\ LET times == Repeat(SpeedTimes[1], a) \o Repeat(SpeedTimes[2], b)
                                \o Repeat(SpeedTimes[3], c)
                       own == [i \in 1..Len(times) |-> SubmissionRow(i, 1, 1, 0, times[i])]
                   IN  submissions =
                         own \o [j \in 1..Cardinality(other) |->
                                    SubmissionRow(Len(own) + j, 2, 1, 0,
                                                  CHOOSE t \in other : TRUE)]
    /\ ai_results = <<>>
    /\ fraud_flags = <<>>
    /\ req = Idle

\* the labels a detector may report, and a detection record without a label
Labels ==
    {"brick wall", "Brick Wall", "steel reinforcement beam", "Roof Tiles", "tiles",
     "concrete blocks", "construction workers", "paint windows doors flooring",
     "plumbing pipes", "electrical wiring",
     "masonry brick walls, steel reinforcement, concrete blocks"}

DetectionRecords == {[label |-> l] : l \in Labels} \cup {[bbox |-> <<0, 0, 1, 1>>]}

\* the detector outputs of up to MaxDet detections, and one without the key
DetectorOutputs ==
    {[detections |-> d] : d \in UNION {[1..k -> DetectionRecords] : k \in 0..MaxDet}}
    \cup {[prompts_used |-> <<>>]}

\* SpecClassify: a detector output at hand; no table is read
InitClassify ==
    /\ submissions = <<>>
    /\ ai_results = <<>>
    /\ fraud_flags = <<>>
    /\ req \in {[Idle EXCEPT !.detections = d] : d \in DetectorOutputs}

\* SpecRules: no table is read
InitRules ==
    /\ submissions = <<>>
    /\ ai_results = <<>>
    /\ fraud_flags = <<>>
    /\ req = Idle

(***************************************************************************)
(* Specifications                                                          *)
(***************************************************************************)
CreateSubmission ==
    \/ \E site_id \in SiteIds, gps_lat \in RequestLats, surveyor_id \in Surveyors,
          photo \in Photos :
          create_submission_site(site_id, gps_lat, surveyor_id, photo)
    \/ create_submission_hash
    \/ create_submission_gps
    \/ create_submission_duplicate

CompareModels ==
    \/ \E submission_id \in 1..(Len(submissions) + 1) : compare_models_load(submission_id)
    \/ compare_models_classify
    \/ compare_models_validate
    \/ compare_models_store

Next == CreateSubmission \/ CompareModels

\* the API gateway serving POST /submissions and POST /comparison
Spec == Init /\ [][Next]_vars

NextGps == CreateSubmission

\* POST /submissions over histories with equal timestamps
SpecGps == InitGps /\ [][NextGps]_vars

NextProg == \E site_id \in Sites, current_stage \in StageValues :
               call_validate_progression(site_id, current_stage)

\* validate_progression called on any site and stage
SpecProg == InitProg /\ [][NextProg]_vars

NextSpeed == \E site_id \in Sites : call_check_realistic_speed(site_id)

\* _check_realistic_speed called on histories of up to MaxHist rows
SpecSpeed == InitSpeed /\ [][NextSpeed]_vars

NextRepeat == CreateSubmission \/ create_submission_again

\* POST /submissions, each request possibly sent twice
SpecRepeat == InitGps /\ [][NextRepeat]_vars

NextBaseline == CompareModels

\* POST /comparison on sites that may have a stage on record
SpecBaseline == InitBaseline /\ [][NextBaseline]_vars

\* validate_progression called on sites with several submissions a day
SpecBusy == InitBusy /\ [][NextProg]_vars

NextRules ==
    \E previous_stage \in StageValues, current_stage \in StageValues :
        \/ call_check_regression(previous_stage, current_stage)
        \/ call_check_stage_jump(previous_stage, current_stage)

\* _check_regression and _check_stage_jump called on every pair of stages
SpecRules == InitRules /\ [][NextRules]_vars

NextClassify == call_classify_stage

\* classify_stage called on detector outputs of up to MaxDet detections
SpecClassify == InitClassify /\ [][NextClassify]_vars

(***************************************************************************)
(* Terms of the specification used to state the claims                     *)
(***************************************************************************)
\* a submission is approved iff no fraud flag was raised for it
Approved(s) == \A f \in Rows(fraud_flags) : f.submission_id # s.id

FlagTypes(id) == {f.flag_type : f \in {g \in Rows(fraud_flags) : g.submission_id = id}}

\* the stage recorded for the most recent approved submission of a site, if any
PreviousStages(site_id) ==
    LET previous == FirstDesc({s \in Rows(submissions) :
                                  s.site_id = site_id /\ Approved(s)}) \ {NoRow}
        results == UNION {FirstDesc({a \in Rows(ai_results) : a.submission_id = p.id})
                          : p \in previous} \ {NoRow}
    IN  {a.stage : a \in results} \cap StageValues

StageIndex(stage) == Index(ConstructionStage, stage)

\* a create_submission request that found its site and decoded its photo has ended
PassEnded ==
    /\ req.op = "create_submission" /\ req.pc \in {"done", "raised"}
    /\ req.site_id \in Sites /\ req.photo.decodable

\* the GPS check of the request has run
GpsChecked == req.op = "create_submission" /\ req.gps # NoVerdict

\* a direct call of validate_progression has ended
ProgressionCalled == req.op = "validate_progression" /\ req.pc \in {"done", "raised"}

(***************************************************************************)
(* C1: every validation pass of create_submission ends with its           *)
(* submission stored, with is_approved true exactly when no fraud flag    *)
(* was raised for it, and with status FLAGGED when a flag was raised and  *)
(* COMPLETED otherwise.                                                    *)
(***************************************************************************)
C1_StoredAsDecided ==
    PassEnded =>
        /\ req.pc = "done"
        /\ LET s == GetSubmission(submissions, req.submission_id)
           IN  /\ s # NoRow
               /\ s.is_approved = (FlagTypes(s.id) = {})
               /\ s.status = IF FlagTypes(s.id) # {} THEN "FLAGGED" ELSE "COMPLETED"

(***************************************************************************)
(* C2: check_duplicate_photo reports a duplicate if and only if a         *)
(* fingerprint among the 2 most recent approved ones of the site and the  *)
(* 3 most recent ones of the surveyor is within the Hamming threshold of  *)
(* the new fingerprint.                                                    *)
(***************************************************************************)
HasHash(s) == "phash" \in DOMAIN s /\ s.phash # NoHash

WithinThreshold(site_id, surveyor_id, bits, before) ==
    LET earlier == {s \in Rows(submissions) : s.id # before /\ HasHash(s)}
        site_rows == {s \in earlier : s.site_id = site_id /\ Approved(s)}
        surv_rows == {s \in earlier : s.surveyor_id = surveyor_id}
    IN  \E sw \in WindowsDesc(site_rows, 2), vw \in WindowsDesc(surv_rows, 3) :
           \E s \in sw \cup vw : Hamming(s.phash, bits) <= duplicate_hamming_threshold

C2_DuplicateIffCandidateNear ==
    (PassEnded /\ GpsChecked) =>
        /\ req.dup # NoDup
        /\ req.dup.is_duplicate
             <=> WithinThreshold(req.site_id, req.surveyor_id, req.photo.bits,
                                 req.submission_id)

(***************************************************************************)
(* C4: both checks run for every submission, whatever the other's result, *)
(* and a submission that fails both is stored with a GPS_MISMATCH and a   *)
(* DUPLICATE_PHOTO flag.                                                   *)
(***************************************************************************)
C4_BothChecksRun ==
    PassEnded =>
        /\ req.gps # NoVerdict
        /\ req.dup # NoDup
        /\ (~req.gps.ok /\ req.dup.is_duplicate)
             => /\ req.pc = "done"
                /\ FlagTypes(req.submission_id) = {"GPS_MISMATCH", "DUPLICATE_PHOTO"}

(***************************************************************************)
(* C3: the GPS check compares the request's coordinates with the most     *)
(* recent submission of the same surveyor at the same site only, and      *)
(* rejects, with the distance and the tolerance in its message, exactly   *)
(* when that distance is strictly greater than gps_tolerance_meters.      *)
(***************************************************************************)
C3_GpsAgainstLastOnly ==
    GpsChecked =>
        LET prior == {s \in Rows(submissions) :
                         s.site_id = req.site_id /\ s.surveyor_id = req.surveyor_id}
            last == req.last_submission
        IN  IF prior = {} THEN last = NoRow /\ req.gps = Ok
            ELSE /\ last \in prior
                 /\ \A s \in prior : s.created_at <= last.created_at
                 /\ LET dist == Abs(req.coords[1] - last.gps_lat)
                    IN  IF dist > gps_tolerance_meters * MmPerMeter
                        THEN /\ ~req.gps.ok
                             /\ req.gps.msg.meters_2f = Format2f(dist)
                             /\ req.gps.msg.maximum = gps_tolerance_meters
                        ELSE req.gps = Ok

\* rejected on the most recent row although an older row of the same surveyor
\* and site is within the tolerance
C3_Witness ==
    /\ GpsChecked /\ ~req.gps.ok
    /\ \E s \in Rows(submissions) :
          /\ s.site_id = req.site_id /\ s.surveyor_id = req.surveyor_id
          /\ s.created_at < req.last_submission.created_at
          /\ Abs(req.coords[1] - s.gps_lat) <= gps_tolerance_meters * MmPerMeter

(***************************************************************************)
(* C5: when the most recent approved submission of the site has a         *)
(* recorded stage and the new stage is earlier in the stage order,        *)
(* validate_progression rejects with the regression message naming both.  *)
(***************************************************************************)
C5_RegressionRejected ==
    ProgressionCalled =>
        \A p \in PreviousStages(req.site_id) :
            StageIndex(req.current_stage) < StageIndex(p)
              => req.progression = Reject(RegressionMessage(p, req.current_stage))

(***************************************************************************)
(* C6: when the new stage is more than max_stage_jumps positions away     *)
(* from the previous stage, validate_progression rejects with the         *)
(* impossible-jump message.                                                *)
(***************************************************************************)
C6_JumpRejected ==
    ProgressionCalled =>
        \A p \in PreviousStages(req.site_id) :
            Abs(StageIndex(req.current_stage) - StageIndex(p)) > max_stage_jumps
              => /\ ~req.progression.ok
                 /\ req.progression.msg.kind = "Impossible stage jump"

C8_FirstRejectingRule ==
    ProgressionCalled =>
        \A p \in PreviousStages(req.site_id) :
            LET regression == _check_regression(p, req.current_stage)
                speed == _check_realistic_speed(submissions, req.site_id)
                jump == _check_stage_jump(p, req.current_stage)
            IN  req.progression = IF ~regression.ok THEN regression
                                  ELSE IF ~speed.ok THEN speed
                                  ELSE IF ~jump.ok THEN jump
                                  ELSE Ok

(***************************************************************************)
(* C9: the first submission of a site passes the GPS check, whatever its  *)
(* coordinates, and the progression check each time compare_models runs   *)
(* on it.                                                                  *)
(***************************************************************************)
\* no submission of the same site was stored before submission id
FirstOfSite(id) ==
    /\ id \in 1..Len(submissions)
    /\ \A s \in Rows(submissions) :
          s.site_id = submissions[id].site_id => s.created_at >= submissions[id].created_at

\* compare_models has classified the stage and validate_progression has ended
ProgressionChecked ==
    /\ req.op = "compare_models" /\ req.current_stage # None
    /\ req.pc \in {"store", "done", "raised"}

C9_FirstSubmissionPasses ==
    /\ (GpsChecked /\ \A s \in Rows(submissions) : s.site_id # req.site_id)
          => req.gps = Ok
    /\ (ProgressionChecked /\ FirstOfSite(req.submission_id))
          => req.pc # "raised" /\ req.progression = Ok

\* compare_models has completed again on the only submission of a site
C9_Witness ==
    /\ req.op = "compare_models" /\ req.pc = "done"
    /\ FirstOfSite(req.submission_id)
    /\ Cardinality({a \in ComparisonResults(ai_results) :
                       a.submission_id = req.submission_id}) >= 2

(***************************************************************************)
(* C10: validate_progression fails open: no call of it raises, and when   *)
(* its try block ends in an error the result is valid with no message.    *)
(***************************************************************************)
TryRaises ==
    \E o \in ProgressionTry(submissions, ai_results, req.site_id, req.current_stage) :
        o.raised

C10_FailsOpen ==
    ProgressionCalled =>
        /\ req.pc = "done"
        /\ TryRaises => req.progression = Ok

\* a call whose try block raised, on a site whose latest result holds a string
\* that is no stage
C10_Witness ==
    /\ ProgressionCalled /\ req.pc = "done" /\ TryRaises
    /\ \E s \in Rows(submissions), a \in Rows(ai_results) :
          s.site_id = req.site_id /\ a.submission_id = s.id /\ a.stage = "bogus"

(***************************************************************************)
(* C11: a history query of a check only considers submissions strictly    *)
(* older by created_at than the submission under evaluation.  Stated for  *)
(* the velocity window: whichever stored submission of the site is the    *)
(* one evaluated, the result is the one computed from the submissions     *)
(* strictly older than it.                                                 *)
(***************************************************************************)
StrictlyOlder(x) == SelectSeq(submissions, LAMBDA s : s.created_at < x.created_at)

C11_OnlyOlderHistory ==
    (req.op = "_check_realistic_speed" /\ req.pc = "done") =>
        \A x \in Rows(submissions) :
            x.site_id = req.site_id
              => req.progression = _check_realistic_speed(StrictlyOlder(x), req.site_id)

(***************************************************************************)
(* C12: the writes of one validation pass are applied together: every     *)
(* step either leaves the three tables as they are or is the commit that  *)
(* completes a pass and adds all its rows (create_submission: the         *)
(* submission, its AI result and one flag for each failed check;          *)
(* compare_models: the comparison result); a pass that fails writes       *)
(* nothing.                                                                *)
(***************************************************************************)
IsPrefix(old, new) == Len(old) <= Len(new) /\ SubSeq(new, 1, Len(old)) = old

Added(old, new) == SubSeq(new, Len(old) + 1, Len(new))

CommitOfCreate ==
    /\ req.op = "create_submission" /\ req'.pc = "done"
    /\ Len(Added(submissions, submissions')) = 1
    /\ Len(Added(ai_results, ai_results')) = 1
    /\ Added(ai_results, ai_results')[1].submission_id = req'.submission_id
    /\ {f.flag_type : f \in Rows(Added(fraud_flags, fraud_flags'))}
         = {f.flag_type : f \in Rows(FraudFlagsOf(req'.gps, req'.dup))}
    /\ \A f \in Rows(Added(fraud_flags, fraud_flags')) : f.submission_id = req'.submission_id

CommitOfCompare ==
    /\ req.op = "compare_models" /\ req'.pc = "done"
    /\ UNCHANGED <<submissions, fraud_flags>>
    /\ Len(Added(ai_results, ai_results')) = 1
    /\ Added(ai_results, ai_results')[1].submission_id = req.submission_id
    /\ Added(ai_results, ai_results')[1].stage = req.current_stage

C13_StageResultWithPass ==
    PassEnded =>
        /\ GetSubmission(submissions, req.submission_id) # NoRow
        /\ \E a \in Rows(ai_results) :
              a.submission_id = req.submission_id /\ a.stage \in StageValues

(***************************************************************************)
(* C14: the tables are append-only: no step changes or removes a stored   *)
(* submission, fraud flag or AI result, and the steps that run the GPS,   *)
(* duplicate and progression checks write nothing.                        *)
(***************************************************************************)
C14_AppendOnly ==
    [][/\ IsPrefix(submissions, submissions')
       /\ IsPrefix(ai_results, ai_results')
       /\ IsPrefix(fraud_flags, fraud_flags')
       /\ (req.pc \in {"gps", "validate"} \/ req'.pc = "raised")
            => UNCHANGED <<submissions, ai_results, fraud_flags>>]_vars

\* compare_models has added its result after the results stored before
C14_Witness ==
    /\ req.op = "compare_models" /\ req.pc = "done"
    /\ Len(ai_results) >= 2
    /\ ai_results[Len(ai_results)].model_type = "comparison_dino_sam3"
    /\ ai_results[Len(ai_results)].submission_id = req.submission_id

(***************************************************************************)
(* C19: a photo that cannot be decoded aborts the pass at the hashing     *)
(* step: neither check runs, no photo is saved and no row is written for  *)
(* that request.                                                           *)
(***************************************************************************)
C19_UndecodableAborts ==
    [][(req'.op = "create_submission" /\ ~req'.photo.decodable) =>
          /\ req'.pc \in {"hash", "raised"}
          /\ req'.gps = NoVerdict /\ req'.dup = NoDup
          /\ ~req'.photo_saved /\ req'.submission_id = 0
          /\ UNCHANGED <<submissions, ai_results, fraud_flags>>]_vars

\* the hashing step has failed on the photo of a request for an existing site
C19_Witness ==
    /\ req.op = "create_submission" /\ req.pc = "raised"
    /\ req.exc = "UnidentifiedImageError"
    /\ req.site_id \in Sites /\ ~req.photo.decodable

(***************************************************************************)
(* Terms for the claims about classify_stage                               *)
(***************************************************************************)
\* classify_stage has returned
Classify == req.op = "classify_stage" /\ req.pc = "done"

\* the output has detections and each of them has a label
Labelled ==
    /\ "detections" \in DOMAIN req.detections
    /\ Len(req.detections.detections) > 0
    /\ \A j \in 1..Len(req.detections.detections) :
          "label" \in DOMAIN req.detections.detections[j]

\* the number of keywords of STAGE_INDICATORS[k] found in some lower-cased label
MatchCount(k) ==
    Cardinality({i \in 1..Len(STAGE_INDICATORS[k].keywords) :
                    \E j \in 1..Len(req.detections.detections) :
                       Contains(STAGE_INDICATORS[k].keywords[i],
                                Lower(req.detections.detections[j].label))})

Candidates == {k \in 1..Len(STAGE_INDICATORS) : MatchCount(k) > 0}

(***************************************************************************)
(* C15: classify_stage returns the stage with the most keywords found in  *)
(* the lower-cased labels, stages without a match excluded, a tie won by  *)
(* the stage declared first in the enum; labels "brick wall" and "steel   *)
(* reinforcement beam" give WALLS with 2 matches and confidence 0.5.      *)
(***************************************************************************)
C15_HighestCountFirstDeclared ==
    (Classify /\ Labelled /\ Candidates # {}) =>
        /\ \E k \in Candidates :
              /\ req.stage.stage = STAGE_INDICATORS[k].stage
              /\ Len(req.stage.matched_elements) = MatchCount(k)
              /\ \A j \in Candidates \ {k} :
                    \/ MatchCount(j) < MatchCount(k)
                    \/ /\ MatchCount(j) = MatchCount(k)
                       /\ StageIndex(STAGE_INDICATORS[k].stage)
                            < StageIndex(STAGE_INDICATORS[j].stage)
        /\ req.detections.detections
             = <<[label |-> "brick wall"], [label |-> "steel reinforcement beam"]>>
             => req.stage = Classified("walls", 50, <<"brick", "steel reinforcement">>)

\* two stages tie on the highest count and the earlier one is returned
C15_Witness ==
    /\ Classify /\ Labelled
    /\ \E k, j \in Candidates :
          /\ k # j /\ MatchCount(k) = MatchCount(j)
          /\ \A i \in Candidates : MatchCount(i) <= MatchCount(k)
          /\ req.stage.stage = STAGE_INDICATORS[k].stage

(***************************************************************************)
(* C16: classify_stage returns SITE_PREPARATION with confidence 0.5 when  *)
(* there are no detections or no label matches a keyword, and             *)
(* SITE_PREPARATION with confidence 0.0 on an internal error such as a    *)
(* detection without a label; it never raises.                            *)
(***************************************************************************)
C16_Defaults ==
    Classify =>
        /\ req.exc = None
        /\ ("detections" \notin DOMAIN req.detections)
             => req.stage = Classified("site_preparation", 50, <<>>)
        /\ ("detections" \in DOMAIN req.detections /\ req.detections.detections = <<>>)
             => req.stage = Classified("site_preparation", 50, <<>>)
        /\ (Labelled /\ Candidates = {})
             => req.stage = Classified("site_preparation", 50, <<>>)
        /\ ("detections" \in DOMAIN req.detections /\ req.detections.detections # <<>>
              /\ ~Labelled)
             => req.stage = Classified("site_preparation", 0, <<>>)

\* a detection without a label after one whose label matches keywords
C16_Witness ==
    /\ Classify /\ "detections" \in DOMAIN req.detections
    /\ Len(req.detections.detections) = 2
    /\ req.detections.detections[1] = [label |-> "brick wall"]
    /\ "label" \notin DOMAIN req.detections.detections[2]
    /\ req.stage.confidence = 0

(***************************************************************************)
(* C17: the confidence of a stage selected by keyword match is            *)
(* min(match_count * 0.25, 1.0): 0.25, 0.5 and 0.75 for 1, 2 and 3        *)
(* matches and 1.0 for 4 or more.                                          *)
(***************************************************************************)
C17_ConfidenceOfCount ==
    (Classify /\ Labelled /\ Candidates # {}) =>
        LET n == Len(req.stage.matched_elements)
        IN  /\ n >= 1
            /\ \E k \in Candidates :
                  STAGE_INDICATORS[k].stage = req.stage.stage /\ MatchCount(k) = n
            /\ req.stage.confidence = (CASE n = 1 -> 25 [] n = 2 -> 50 [] n = 3 -> 75
                                         [] OTHER -> 100)

\* a stage selected with 5 matches
C17_Witness ==
    /\ Classify /\ Labelled
    /\ Len(req.stage.matched_elements) >= 5
    /\ req.stage.confidence = 100

(***************************************************************************)
(* C18: validation is deterministic: the same input validated twice       *)
(* against an unchanged history gets identical results.  Stated for the   *)
(* GPS check of a request that is sent again: its verdict, message        *)
(* included, is the verdict of the pass before.                            *)
(***************************************************************************)
C18_SameVerdictTwice ==
    (req.op = "create_submission" /\ req.previous_gps # NoVerdict /\ req.gps # NoVerdict)
        => req.gps = req.previous_gps

(***************************************************************************)
(* C20: a failed history lookup propagates from the check that made it:   *)
(* when the try block of validate_progression ends in an error, the call  *)
(* raises and returns no passing result.                                   *)
(***************************************************************************)
C20_LookupFailurePropagates ==
    (req.op = "validate_progression" /\ req.pc \in {"done", "raised"} /\ TryRaises)
        => req.pc = "raised" /\ req.exc # None /\ req.progression = NoVerdict

(***************************************************************************)
(* C21: the stage order of the regression check and the stage order of    *)
(* the jump check are the same list, the 9 stages of the enum in          *)
(* declaration order, each once: distinct stages have distinct indexes,   *)
(* and both checks measure the same order.                                 *)
(***************************************************************************)
C21_SingleStageOrder ==
    /\ stage_order_regression = stage_order_jump
    /\ stage_order_regression = ConstructionStage
    /\ ConstructionStage =
         <<"planning", "site_preparation", "foundation", "walls", "roofing",
           "electrical", "plumbing", "finishing", "completed">>
    /\ \A i, j \in 1..Len(stage_order_jump) :
          stage_order_jump[i] = stage_order_jump[j] => i = j
    /\ (req.op = "_check_regression" /\ req.pc = "done")
         => (~req.progression.ok
               <=> StageIndex(req.current_stage) < StageIndex(req.previous_stage))
    /\ (req.op = "_check_stage_jump" /\ req.pc = "done")
         => (~req.progression.ok
               <=> Abs(StageIndex(req.current_stage) - StageIndex(req.previous_stage))
                     > max_stage_jumps)

\* the jump check has accepted electrical after walls, two places apart
C21_Witness ==
    /\ req.op = "_check_stage_jump" /\ req.pc = "done"
    /\ req.previous_stage = "walls" /\ req.current_stage = "electrical"
    /\ req.progression.ok

(***************************************************************************)
(* C22: a progression rejection is reported with the type of its rule.    *)
(* Stated for the velocity rule: the alert built from a rejection of      *)
(* _check_realistic_speed has the type IMPOSSIBLE_PROGRESS, which differs *)
(* from the type given to a regression or a jump rejection.               *)
(***************************************************************************)
C22_RejectionTyped ==
    (req.op = "_check_realistic_speed" /\ req.pc = "done" /\ ~req.progression.ok) =>
        /\ ProgressionAlert(req.progression).alert_type \in
             {"IMPOSSIBLE_PROGRESS", "impossible_progress"}
        /\ ProgressionAlert(req.progression).alert_type
             # ProgressionAlert(_check_regression("walls", "foundation")).alert_type

(***************************************************************************)
(* C23: the thresholds the endpoints apply are the configured ones: the   *)
(* GPS check of create_submission rejects exactly the distances above     *)
(* GPS_TOLERANCE_METERS and names that value in its message, and the      *)
(* duplicate threshold is DUPLICATE_HASH_THRESHOLD.                        *)
(***************************************************************************)
C23_ConfiguredThresholds ==
    /\ duplicate_hamming_threshold = DUPLICATE_HASH_THRESHOLD
    /\ (GpsChecked /\ req.last_submission # NoRow) =>
          LET dist == Abs(req.coords[1] - req.last_submission.gps_lat)
          IN  /\ ~req.gps.ok <=> dist > GPS_TOLERANCE_METERS * MmPerMeter
              /\ ~req.gps.ok => req.gps.msg.maximum = GPS_TOLERANCE_METERS

(***************************************************************************)
(* C24: of two create_submission requests of one surveyor for one site    *)
(* with the identical fingerprint, under every interleaving (here: the    *)
(* second sent after the first has ended), both are stored and at least   *)
(* one of the two stored submissions carries a DUPLICATE_PHOTO flag.      *)
(***************************************************************************)
\* the same request has been sent twice and the second pass has ended
SentTwice ==
    /\ req.op = "create_submission" /\ req.pc \in {"done", "raised"}
    /\ req.previous_gps # NoVerdict /\ req.photo.decodable

C24_OneOfTwoFlagged ==
    SentTwice =>
        \E s, t \in Rows(submissions) :
            /\ s.id < t.id /\ t.id = req.submission_id
            /\ s.site_id = req.site_id /\ t.site_id = req.site_id
            /\ s.surveyor_id = req.surveyor_id /\ t.surveyor_id = req.surveyor_id
            /\ "DUPLICATE_PHOTO" \in FlagTypes(s.id) \cup FlagTypes(t.id)

(***************************************************************************)
(* C25: across the requests the previous stage that validate_progression  *)
(* takes for a site (the stage on record for its most recent approved     *)
(* submission) never moves to an earlier stage of the order.              *)
(***************************************************************************)
C25_PreviousStageNeverBack ==
    [][\A site \in Sites :
          \A p \in PreviousStages(site) : \A q \in PreviousStages(site)' :
              StageIndex(q) >= StageIndex(p)]_vars

(***************************************************************************)
(* C26: validate_progression takes its previous stage only from the most  *)
(* recent AI result of the most recent approved submission of the site:   *)
(* when that submission has no AI result or the result has no stage, the  *)
(* call returns valid, whatever stage an older submission has on record.  *)
(***************************************************************************)
\* the most recent approved submission of the site has no stage on record
LatestUnstaged(site_id) ==
    \E previous_submission \in
          FirstDesc({s \in Rows(submissions) : s.site_id = site_id /\ Approved(s)}) :
       /\ previous_submission # NoRow
       /\ \A previous_ai \in FirstDesc({a \in Rows(ai_results) :
                                           a.submission_id = previous_submission.id}) :
             previous_ai = NoRow \/ previous_ai.stage = None

\* an older submission of the site has a stage on record later than the new one
OlderStagedLater(site_id, current_stage) ==
    \E s \in Rows(submissions), a \in Rows(ai_results) :
       /\ s.site_id = site_id /\ a.submission_id = s.id
       /\ \E t \in Rows(submissions) : t.site_id = site_id /\ t.created_at > s.created_at
       /\ a.stage \in StageValues
       /\ StageIndex(a.stage) > StageIndex(current_stage)

C26_NoStageNoRules ==
    (ProgressionCalled /\ LatestUnstaged(req.site_id))
        => (req.pc = "done" /\ req.progression = Ok)

C26_Witness ==
    /\ ProgressionCalled /\ LatestUnstaged(req.site_id)
    /\ OlderStagedLater(req.site_id, req.current_stage)
    /\ req.progression = Ok

(***************************************************************************)
(* C27: the GPS outcome depends only on the immediately preceding         *)
(* submission of the surveyor at the site, approved or flagged: after a   *)
(* submission rejected with GPS_MISMATCH at a location, the following     *)
(* submission of the same surveyor at that same location passes the GPS   *)
(* check.                                                                  *)
(***************************************************************************)
C27_SameLocationPassesNext ==
    (GpsChecked /\ req.previous_gps # NoVerdict /\ ~req.previous_gps.ok)
        => req.gps.ok

(***************************************************************************)
(* C28: in a sequential history a submission whose fingerprint is         *)
(* identical to that of the same surveyor's preceding submission is       *)
(* stored with a DUPLICATE_PHOTO flag and is not approved.                *)
(***************************************************************************)
C28_IdenticalAlwaysFlagged ==
    SentTwice =>
        /\ req.pc = "done"
        /\ \E s \in Rows(submissions) :
              /\ s.id = req.submission_id /\ ~Approved(s)
              /\ "DUPLICATE_PHOTO" \in FlagTypes(s.id)

(***************************************************************************)
(* C29: validate_progression never rejects a new stage that equals the    *)
(* previous stage of the site, whatever the history of the site.          *)
(***************************************************************************)
C29_SameStageNeverRejected ==
    (ProgressionCalled /\ req.current_stage \in PreviousStages(req.site_id))
        => (req.pc = "done" /\ req.progression.ok)

\* the stage is the one on record and the site has three submissions within
\* days_per_stage days
C29_Witness ==
    /\ ProgressionCalled /\ req.current_stage \in PreviousStages(req.site_id)
    /\ ~_check_realistic_speed(submissions, req.site_id).ok
    /\ req.progression.ok

(***************************************************************************)
(* C30: classify_stage returns only site_preparation, foundation, walls,  *)
(* roofing, electrical, finishing or completed; it never returns planning *)
(* or plumbing, whatever the labels say.                                   *)
(***************************************************************************)
ClassifiableStages ==
    {"site_preparation", "foundation", "walls", "roofing", "electrical", "finishing",
     "completed"}

C30_OnlySevenStages ==
    Classify => /\ req.stage.stage \in ClassifiableStages
                /\ req.stage.stage \notin {"planning", "plumbing"}

\* every detection is labelled as plumbing and the stage returned is the default
C30_Witness ==
    /\ Classify /\ Labelled
    /\ \A j \in 1..Len(req.detections.detections) :
          req.detections.detections[j].label = "plumbing pipes"
    /\ req.stage.stage = "site_preparation"
====
